---- MODULE Spec2Model ----
(***************************************************************************)
(* Task service of todo-backend: the four task handlers, the response      *)
(* helpers, the Express middleware chain of the application and the task   *)
(* table they share.  A request is handled by one slot; slots interleave   *)
(* at the handlers' awaits, that is at their storage calls.                *)
(***************************************************************************)
EXTENDS Integers, Sequences, FiniteSets, Bags, TLC

(* ------------------------------ bounds -------------------------------- *)

\* Requests that can be in flight at the same time.
NumSlots == 2

\* Rows the task table ever receives (the autoincrement id stops here).
MaxId == 2

Ids == 1..MaxId

(* --------------------------- strings, JSON ---------------------------- *)

\* A string is a sequence of characters.
sA == <<"a">>
sPadUpperA == <<" ", "A">>
sB == <<"b">>
sEmpty == <<>>
sRed == <<"r">>
sYes == <<"y">>

\* String.prototype.toLowerCase, character by character.
LowerChar(c) == CASE c = "A" -> "a" [] c = "B" -> "b" [] OTHER -> c

ToLowerCase(s) == [i \in 1..Len(s) |-> LowerChar(s[i])]

\* String.prototype.trim: drops leading and trailing white space.
RECURSIVE TrimStart(_)
TrimStart(s) == IF s # <<>> /\ Head(s) = " " THEN TrimStart(Tail(s)) ELSE s

RECURSIVE TrimEnd(_)
TrimEnd(s) ==
  IF s # <<>> /\ s[Len(s)] = " " THEN TrimEnd(SubSeq(s, 1, Len(s) - 1)) ELSE s

Trim(s) == TrimEnd(TrimStart(s))

\* title.trim().toLowerCase()
Normalize(s) == ToLowerCase(Trim(s))

\* A JSON value of a request body: t is its JavaScript type.
Absent == [t |-> "undefined", s |-> <<>>, b |-> FALSE]
Str(s) == [t |-> "string", s |-> s, b |-> FALSE]
Bool(b) == [t |-> "boolean", s |-> <<>>, b |-> b]
Num == [t |-> "number", s |-> <<>>, b |-> FALSE]

\* req.body: the three keys the schema knows, and whether other keys are there.
Body(title, color, completed, extra) ==
  [title |-> title, color |-> color, completed |-> completed, extra |-> extra]

EmptyBody == Body(Absent, Absent, Absent, FALSE)

\* Bodies a POST /tasks request carries.
CreateBodies == {
  Body(Str(sA), Str(sRed), Absent, FALSE),
  Body(Str(sPadUpperA), Str(sRed), Bool(TRUE), FALSE),
  Body(Str(sB), Str(sRed), Bool(FALSE), TRUE),
  Body(Str(sEmpty), Str(sRed), Absent, FALSE),
  Body(Absent, Num, Absent, FALSE),
  Body(Str(sA), Absent, Absent, FALSE),
  Body(Str(sB), Num, Str(sYes), FALSE),
  Body(Str(sA), Str(sRed), Str(sYes), FALSE) }

\* Bodies a PUT /tasks/:id request carries.
UpdateBodies == {
  EmptyBody,
  Body(Absent, Absent, Absent, TRUE),
  Body(Absent, Absent, Bool(TRUE), FALSE),
  Body(Str(sPadUpperA), Absent, Absent, FALSE),
  Body(Str(sEmpty), Absent, Absent, FALSE),
  Body(Absent, Num, Str(sYes), TRUE) }

(* ------------------------------ taskSchema ---------------------------- *)

\* z.string().nonempty("Title is required")
TitleIssues(v, partial) ==
  IF v.t = "undefined" THEN (IF partial THEN <<>> ELSE <<"Required">>)
  ELSE IF v.t # "string" THEN <<"Expected string, received number">>
  ELSE IF v.s = <<>> THEN <<"Title is required">>
  ELSE <<>>

\* z.string()
ColorIssues(v, partial) ==
  IF v.t = "undefined" THEN (IF partial THEN <<>> ELSE <<"Required">>)
  ELSE IF v.t # "string" THEN <<"Expected string, received number">>
  ELSE <<>>

\* z.boolean().optional()
CompletedIssues(v) ==
  IF v.t = "undefined" \/ v.t = "boolean" THEN <<>>
  ELSE <<"Expected boolean, received string">>

\* ZodError.errors of taskSchema.parse (partial: taskSchema.partial().parse):
\* the issues of the fields in the order the schema declares them.
SchemaIssues(body, partial) ==
  TitleIssues(body.title, partial) \o ColorIssues(body.color, partial)
    \o CompletedIssues(body.completed)

\* The value taskSchema.parse returns: the known keys, other keys stripped.
SchemaParse(body) ==
  [title |-> body.title, color |-> body.color, completed |-> body.completed]

(* ------------------------------ task table ---------------------------- *)

VARIABLES
  tasks,     \* the rows of the task table
  nextId,    \* the id the next inserted row gets
  inflight,  \* the requests suspended at an await (a bag: two may be alike)
  done,      \* the request the last step completed, with its response
  before     \* the rows of the task table before the last step

vars == <<tasks, nextId, inflight, done, before>>

TaskById(id) == {t \in tasks : t.id = id}

TaskByTitle(title) == {t \in tasks : t.title = title}

\* What a storage call throws.
NoError == [name |-> "none", code |-> "", message |-> "", statusCode |-> 0]
PrismaError(code) ==
  [name |-> "PrismaClientKnownRequestError", code |-> code, message |-> "prisma",
   statusCode |-> 0]
\* ZodError as a handler reading the last issue instead of errors[0] would see it.
ZodErrorLastIssue(issues) ==
  [name |-> "ZodError", code |-> "", message |-> issues[Len(issues)], statusCode |-> 0]

ZodError(issues) ==
  [name |-> "ZodError", code |-> "", message |-> issues[1], statusCode |-> 0]

\* The column default of completed.
DefaultCompleted == FALSE

\* title.trim().toLowerCase() of the parsed title.
NormalizedTitle(body) == Normalize(SchemaParse(body).title.s)

\* createTask passing the parsed completed on to prisma.task.create.
CreateDataAllFields(body) ==
  [title |-> Str(NormalizedTitle(body)), color |-> SchemaParse(body).color,
   completed |-> SchemaParse(body).completed]

\* data of prisma.task.create in createTask: the normalized title and the
\* color; completed is not passed on.
CreateData(body) ==
  [title |-> Str(NormalizedTitle(body)), color |-> SchemaParse(body).color,
   completed |-> Absent]

\* prisma.task.create: the unique index on title rejects a second row.
PrismaCreateError(data) ==
  IF TaskByTitle(data.title.s) # {} THEN PrismaError("P2002") ELSE NoError

\* The row prisma.task.create inserts: a column data leaves out gets its default.
PrismaCreateRow(data) ==
  [id |-> nextId, title |-> data.title.s, color |-> data.color.s,
   completed |-> IF data.completed.t = "boolean" THEN data.completed.b
                 ELSE DefaultCompleted]

\* updateTask filling a completed the body leaves out with the column default.
UpdateDataDefaults(body) ==
  [SchemaParse(body) EXCEPT
     !.completed = IF @.t = "undefined" THEN Bool(DefaultCompleted) ELSE @]

\* data of prisma.task.update in updateTask: the parsed body as it is.
UpdateData(body) == SchemaParse(body)

\* prisma.task.update: P2025 when no row has the id, P2002 on the unique index.
PrismaUpdateError(id, data) ==
  IF TaskById(id) = {} THEN PrismaError("P2025")
  ELSE IF data.title.t = "string"
          /\ \E t \in tasks : t.id # id /\ t.title = data.title.s
       THEN PrismaError("P2002")
  ELSE NoError

PrismaUpdateRow(t, data) ==
  [id |-> t.id,
   title |-> IF data.title.t = "string" THEN data.title.s ELSE t.title,
   color |-> IF data.color.t = "string" THEN data.color.s ELSE t.color,
   completed |-> IF data.completed.t = "boolean" THEN data.completed.b ELSE t.completed]

\* prisma.task.delete: P2025 when no row has the id.
PrismaDeleteError(id) ==
  IF TaskById(id) = {} THEN PrismaError("P2025") ELSE NoError

(* ------------------------------ responses ----------------------------- *)

NoData == [kind |-> "none", rows |-> {}]
NullData == [kind |-> "null", rows |-> {}]
TaskData(t) == [kind |-> "task", rows |-> {t}]
ListData(ts) == [kind |-> "list", rows |-> ts]

NoEnvelope == [status |-> "", statusCode |-> 0, message |-> "", data |-> NoData]

\* res: sent once the headers are out; status is the status line of the
\* transport response; body the JSON written; attempts counts res.json calls.
FreshRes ==
  [sent |-> FALSE, status |-> 200, body |-> NoEnvelope, attempts |-> 0, writer |-> "none"]

\* res.status(code)
ResStatus(res, code) == IF res.sent THEN res ELSE [res EXCEPT !.status = code]

\* res.json(body): throws ERR_HTTP_HEADERS_SENT once a response is out.
ResJson(res, body, who) ==
  IF res.sent THEN [res EXCEPT !.attempts = @ + 1]
  ELSE [res EXCEPT !.sent = TRUE, !.body = body, !.attempts = @ + 1, !.writer = who]

sendSuccess(res, data, message, statusCode, who) ==
  ResJson(ResStatus(res, statusCode),
          [status |-> "success", statusCode |-> statusCode, message |-> message,
           data |-> data], who)

sendError(res, errorMessage, statusCode, who) ==
  ResJson(res,
          [status |-> "error", statusCode |-> statusCode, message |-> errorMessage,
           data |-> NoData], who)

(* ---------------------------- middleware chain ------------------------ *)

HeadersSentError ==
  [name |-> "Error", code |-> "ERR_HTTP_HEADERS_SENT", message |-> "headers sent",
   statusCode |-> 0]

\* express.json() on a body that is not JSON: an error without a code.
BodyParseError ==
  [name |-> "SyntaxError", code |-> "", message |-> "Unexpected token", statusCode |-> 400]

\* The message and status the centralized error-handling middleware picks;
\* production: process.env.NODE_ENV === 'production'.
ErrorTranslate(err, production) ==
  IF err.name = "CustomError"
    THEN [message |-> err.message, statusCode |-> err.statusCode]
  ELSE IF err.code = "P2002"
    THEN [message |-> "A task with this field already exists. Please use a unique value.",
          statusCode |-> 400]
  ELSE IF err.code = "P2025" THEN [message |-> "Resource not found", statusCode |-> 404]
  ELSE IF err.code # "" THEN [message |-> "Database operation failed", statusCode |-> 500]
  ELSE [message |-> IF production THEN "Something went wrong. Please try again later."
                    ELSE err.message,
        statusCode |-> 500]

\* The centralized error-handling middleware.
ErrorMiddleware(res, err, production) ==
  sendError(res, ErrorTranslate(err, production).message,
            ErrorTranslate(err, production).statusCode, "errorTranslator")

\* The 404 middleware; what it throws goes to the error-handling middleware.
NotFoundMiddleware(res) ==
  IF res.sent
  THEN ErrorMiddleware(sendError(res, "Route not found", 404, "notFound"),
                       HeadersSentError, FALSE)
  ELSE sendError(res, "Route not found", 404, "notFound")

\* next(sendError(...)): sendError returns nothing, so next is called without
\* an error and the chain goes on to the 404 middleware.
NextAfterSend(res) == NotFoundMiddleware(res)

(* ------------------------------- requests ----------------------------- *)

\* A request suspended at an await: pc names the storage call it resumes with.
Pending(kind, pc, id, body) == [kind |-> kind, pc |-> pc, id |-> id, body |-> body]

\* A completed request; body is req.body if the handler read it.  nextArg: what the handler passed to next ("none":
\* next was not called).  failure: what was thrown inside the handler.
\* missing: the target id was not in the table when the handler looked for
\* it or wrote to it.
Completed(kind, id, body, res, nextArg, failure, missing) ==
  [kind |-> kind, id |-> id, body |-> body, res |-> res, nextArg |-> nextArg,
   failure |-> failure, missing |-> missing]

NoRequest == Completed("none", 0, EmptyBody, FreshRes, "none", "none", FALSE)

\* The handler answered and returned without calling next.
Respond(kind, id, body, res) == Completed(kind, id, body, res, "none", "none", FALSE)

\* A catch block of a handler: next(sendError(...)).
RespondAndNext(kind, id, body, res, failure, missing) ==
  Completed(kind, id, body, NextAfterSend(res), "undefined", failure, missing)

Suspend(q) ==
  /\ BagCardinality(inflight) < NumSlots
  /\ inflight' = inflight (+) SetToBag({q})
  /\ done' = NoRequest
  /\ before' = tasks

Resume(q, c) ==
  /\ inflight' = inflight (-) SetToBag({q})
  /\ done' = c
  /\ before' = tasks

Finish(c) ==
  /\ BagCardinality(inflight) < NumSlots
  /\ done' = c
  /\ before' = tasks
  /\ UNCHANGED inflight

Init ==
  /\ tasks = {}
  /\ nextId = 1
  /\ inflight = EmptyBag
  /\ done = NoRequest
  /\ before = {}

\* GET /
RootRoute ==
  /\ Finish(Respond("root", 0, EmptyBody,
              sendSuccess(FreshRes, NullData, "Welcome to the Task Manager API", 200,
                          "handler")))
  /\ UNCHANGED <<tasks, nextId>>

\* A request no route matches reaches the 404 middleware.
UnmatchedRoute ==
  /\ Finish(Respond("unmatched", 0, EmptyBody, NotFoundMiddleware(FreshRes)))
  /\ UNCHANGED <<tasks, nextId>>

\* A request whose body express.json() cannot parse: next(err).
MalformedBody(production) ==
  /\ Finish(Completed("malformed", 0, EmptyBody,
              ErrorMiddleware(FreshRes, BodyParseError, production),
              "error", "none", FALSE))
  /\ UNCHANGED <<tasks, nextId>>

\* getTasks: findMany returns the rows (ok), or the storage call throws.
GetTasks(ok) ==
  /\ Finish(IF ok
            THEN Respond("getTasks", 0, EmptyBody,
                   sendSuccess(FreshRes, ListData(tasks), "Tasks retrieved successfully",
                               200, "handler"))
            ELSE RespondAndNext("getTasks", 0, EmptyBody,
                   sendError(FreshRes, "Failed to fetch tasks", 500, "handler"),
                   "storage", FALSE))
  /\ UNCHANGED <<tasks, nextId>>

\* createTask's catch block without its case for P2002.
CreateTaskCatchNoP2002(err) ==
  IF err.name = "ZodError" THEN [message |-> err.message, statusCode |-> 400]
  ELSE [message |-> "Failed to create task", statusCode |-> 500]

\* What createTask's catch block answers to the error it caught.
CreateTaskCatch(err) ==
  IF err.name = "ZodError" THEN [message |-> err.message, statusCode |-> 400]
  ELSE IF err.code = "P2002"
    THEN [message |-> "A task with this title already exists. Please use a unique title.",
          statusCode |-> 400]
  ELSE [message |-> "Failed to create task", statusCode |-> 500]

\* Creates that passed the pre-check and have not inserted yet.
PendingCreates == BagCardinality([q \in {p \in DOMAIN inflight : p.pc = "create"} |-> inflight[q]])

\* createTask up to its first await: parse, normalize, findUnique by title.
CreateTaskStart(body) ==
  LET issues == SchemaIssues(body, FALSE) IN
  /\ IF issues # <<>>
     THEN Finish(RespondAndNext("createTask", 0, body,
            sendError(FreshRes, CreateTaskCatch(ZodError(issues)).message,
                      CreateTaskCatch(ZodError(issues)).statusCode, "handler"),
            "validation", FALSE))
     ELSE IF TaskByTitle(NormalizedTitle(body)) # {}
     THEN Finish(Respond("createTask", 0, body,
            sendError(FreshRes,
              "A task with this title already exists. Please use a unique title", 400,
              "handler")))
     ELSE /\ nextId + PendingCreates <= MaxId
          /\ Suspend(Pending("createTask", "create", 0, body))
  /\ UNCHANGED <<tasks, nextId>>

\* createTask from prisma.task.create on.
CreateTaskInsert(q) ==
  LET data == CreateData(q.body)
      err == PrismaCreateError(data)
      row == PrismaCreateRow(data)
  IN
  /\ q.pc = "create"
  /\ IF err # NoError
     THEN /\ Resume(q, RespondAndNext("createTask", 0, q.body,
                      sendError(FreshRes, CreateTaskCatch(err).message,
                                CreateTaskCatch(err).statusCode, "handler"),
                      "storage", FALSE))
          /\ UNCHANGED <<tasks, nextId>>
     ELSE /\ tasks' = tasks \cup {row}
          /\ nextId' = nextId + 1
          /\ Resume(q, Respond("createTask", 0, q.body,
                      sendSuccess(FreshRes, TaskData(row), "Task created successfully",
                                  201, "handler")))

\* updateTask up to prisma.task.update: findUnique by id, then the partial parse
\* of the body (bodies: the bodies the request may carry).
UpdateTaskStart(id, bodies) ==
  /\ IF TaskById(id) = {}
     THEN Finish(Completed("updateTask", id, EmptyBody,
            sendError(FreshRes, "Task not found", 404, "handler"), "none", "none", TRUE))
     ELSE \E body \in bodies :
            IF SchemaIssues(body, TRUE) # <<>>
            THEN Finish(Completed("updateTask", id, body,
                   sendError(FreshRes, ZodError(SchemaIssues(body, TRUE)).message, 400,
                             "handler"),
                   "none", "validation", FALSE))
            ELSE Suspend(Pending("updateTask", "update", id, body))
  /\ UNCHANGED <<tasks, nextId>>

\* updateTask from prisma.task.update on.
UpdateTaskWrite(q) ==
  LET data == UpdateData(q.body)
      err == PrismaUpdateError(q.id, data)
      old == CHOOSE t \in tasks : t.id = q.id
      row == PrismaUpdateRow(old, data)
  IN
  /\ q.pc = "update"
  /\ IF err # NoError
     THEN /\ Resume(q, RespondAndNext("updateTask", q.id, q.body,
                      sendError(FreshRes, "Failed to update task", 500, "handler"),
                      "storage", err.code = "P2025"))
          /\ UNCHANGED tasks
     ELSE /\ tasks' = (tasks \ {old}) \cup {row}
          /\ Resume(q, Respond("updateTask", q.id, q.body,
                      sendSuccess(FreshRes, TaskData(row), "Task updated successfully",
                                  200, "handler")))
  /\ UNCHANGED nextId

\* deleteTask up to prisma.task.delete: findUnique by id.
DeleteTaskStart(id) ==
  /\ IF TaskById(id) = {}
     THEN Finish(Completed("deleteTask", id, EmptyBody,
            sendError(FreshRes, "Task not found", 404, "handler"), "none", "none", TRUE))
     ELSE Suspend(Pending("deleteTask", "delete", id, EmptyBody))
  /\ UNCHANGED <<tasks, nextId>>

\* deleteTask from prisma.task.delete on.
DeleteTaskWrite(q) ==
  LET err == PrismaDeleteError(q.id) IN
  /\ q.pc = "delete"
  /\ IF err # NoError
     THEN /\ Resume(q, RespondAndNext("deleteTask", q.id, EmptyBody,
                      sendError(FreshRes, "Failed to delete task", 500, "handler"),
                      "storage", TRUE))
          /\ UNCHANGED tasks
     ELSE /\ tasks' = tasks \ TaskById(q.id)
          /\ Resume(q, Respond("deleteTask", q.id, EmptyBody,
                      sendSuccess(FreshRes, NullData, "Task deleted successfully", 200,
                                  "handler")))
  /\ UNCHANGED nextId

Next ==
  \/ RootRoute
  \/ UnmatchedRoute
  \/ \E production \in BOOLEAN : MalformedBody(production)
  \/ \E ok \in BOOLEAN : GetTasks(ok)
  \/ \E body \in CreateBodies : CreateTaskStart(body)
  \/ \E q \in DOMAIN inflight : CreateTaskInsert(q)
  \/ \E id \in Ids : UpdateTaskStart(id, UpdateBodies)
  \/ \E q \in DOMAIN inflight : UpdateTaskWrite(q)
  \/ \E id \in Ids : DeleteTaskStart(id)
  \/ \E q \in DOMAIN inflight : DeleteTaskWrite(q)

Spec == Init /\ [][Next]_vars

(* ------------------------------- claims ------------------------------- *)

Envelope == done.res.body

DuplicateTitleMessages ==
  {"A task with this title already exists. Please use a unique title",
   "A task with this title already exists. Please use a unique title."}

\* C1: no two rows of the task table have the same normalized (trimmed,
\* lower-cased) title, after any interleaving of creates, updates and deletes.
C1_NoTwoTasksShareNormalizedTitle ==
  \A t1, t2 \in tasks : Normalize(t1.title) = Normalize(t2.title) => t1 = t2

\* C2: every title in the task table equals its own trimmed, lower-cased value.
C2_StoredTitlesNormalized ==
  \A t \in tasks : t.title = Normalize(t.title)

\* C3: an updateTask or deleteTask whose target id is not in the table ends
\* with the envelope 404 "Task not found", also when the row goes away between
\* the handler's pre-check and its own update or delete call.
C3_MissingIdAnswers404 ==
  (done.kind \in {"updateTask", "deleteTask"} /\ done.missing)
    => (Envelope.statusCode = 404 /\ Envelope.message = "Task not found")

C5_TransportStatusIsBodyStatus ==
  done.res.sent => done.res.status = Envelope.statusCode

\* C6: every failure raised inside a handler by validation or by a storage
\* call is passed to next as an error, and the centralized error-handling
\* middleware writes the error response.
C6_FailuresReachTranslator ==
  (done.failure \in {"validation", "storage"})
    => (done.nextArg = "error" /\ done.res.writer = "errorTranslator")

\* What the schema says of the first field of the body, in the order title,
\* color, completed, that violates it ("": none does).
FirstViolation(body) ==
  IF body.title.t = "undefined" THEN "Required"
  ELSE IF body.title.t # "string" THEN "Expected string, received number"
  ELSE IF Len(body.title.s) = 0 THEN "Title is required"
  ELSE IF body.color.t = "undefined" THEN "Required"
  ELSE IF body.color.t # "string" THEN "Expected string, received number"
  ELSE IF body.completed.t \notin {"undefined", "boolean"}
    THEN "Expected boolean, received string"
  ELSE ""

NoRecognizedFields(body) ==
  /\ body.title.t = "undefined"
  /\ body.color.t = "undefined"
  /\ body.completed.t = "undefined"

\* C8: an updateTask on an id that is in the table, with a body holding none
\* of title, color, completed, is answered 200 with the task, and the row
\* and every other row of the table are as they were.
C8_EmptyUpdateChangesNothing ==
  (done.kind = "updateTask" /\ ~done.missing /\ NoRecognizedFields(done.body))
    => /\ done.res.status = 200
       /\ Envelope.status = "success"
       /\ Envelope.statusCode = 200
       /\ Envelope.data.kind = "task"
       /\ \E t \in before : t.id = done.id /\ Envelope.data.rows = {t}
       /\ tasks = before

\* An update with only unrecognized keys was answered 200 for a completed
\* row of a table of two rows.
C8_Witness ==
  /\ done.kind = "updateTask"
  /\ NoRecognizedFields(done.body) /\ done.body.extra
  /\ done.res.status = 200
  /\ \E t \in tasks : t.id = done.id /\ t.completed
  /\ Cardinality(tasks) = 2

\* C9: at most one response is written per request: after a handler sent an
\* envelope no later middleware attempts to write another.
C9_AtMostOneWriteAttempt ==
  done.res.attempts <= 1

\* C10: a successful createTask stores the normalized title and the color
\* and completed = false whatever completed the body carried; a row becomes
\* completed only by an updateTask.
C10_CreateIgnoresCompleted ==
  /\ (done.kind = "createTask" /\ Envelope.status = "success")
       => \E t \in tasks \ before :
            /\ tasks = before \cup {t}
            /\ Envelope.data.rows = {t}
            /\ t.title = Normalize(done.body.title.s)
            /\ t.color = done.body.color.s
            /\ t.completed = FALSE
  /\ \A t \in tasks \ before : t.completed => done.kind = "updateTask"

\* A create whose body carried completed = true succeeded.
C10_Witness ==
  /\ done.kind = "createTask"
  /\ Envelope.statusCode = 201
  /\ done.body.completed = Bool(TRUE)

====
